---- MODULE Spec2Model ----
(***************************************************************************)
(* Model of the credential manager (batmc_mcp/auth.py), the authenticated  *)
(* request client (batmc_mcp/api_client.py) and the startup part of the    *)
(* process lifecycle (batmc_mcp/server.py).                                 *)
(*                                                                         *)
(* Every `await` that really suspends a coroutine is a boundary between    *)
(* two actions; the code that runs between two suspensions is one action.  *)
(* Suspension points are: waiting for a provider response, waiting for a   *)
(* lending-API response, and leaving `async with httpx.AsyncClient()`      *)
(* (closing the one-shot client) at the end of login() and refresh().      *)
(*                                                                         *)
(* The identity provider is assumed to deliver a new token pair in every    *)
(* success response. Tokens are named by the number of the response that   *)
(* delivered them, in the order the responses arrive: response k delivers  *)
(* access token k and refresh token k.                                     *)
(***************************************************************************)
EXTENDS Integers, Naturals, Sequences, FiniteSets, TLC

\* ---------------------------------------------------------------- bounds
MaxTime == 1
MaxIssued == 3

\* ------------------------------------------------------ program constants
Absent == 0
SafetyMargin == 60
Unauthorized == 401

\* --------------------------------------------------------------- domains
\* config.py:12-18: the fields of MCPConfig, and those declared with a default
Settings == {"env", "api_url", "supabase_url", "supabase_anon_key",
             "user_email", "user_password", "user_name"}
HasDefault == {"env", "api_url", "user_name"}
Main == "main"
Tasks == {"t1", "t2"}
Procs == {Main} \cup Tasks
Verbs == {"GET", "POST", "PUT", "DELETE"}
VerbsOf(p) == IF p = "t1" THEN Verbs ELSE {"GET"}
ApiStatuses == {200, 401, 404}
ProviderStatuses == {200, 400}
ExpiresIns == {60, 61, 3600}
Shapes == {"full", "no_access_token", "no_refresh_token", "no_expires_in"}

\* server.py:68-70: the tool modules, and those server.py imports (the
\* imports of loans and payments are commented out)
ToolModules == {"borrowers", "loans", "payments"}
Imported == {"borrowers"}

\* the handlers each module registers with @mcp.tool() when it is imported
ToolsOf(m) ==
    CASE m = "borrowers" -> {"find_borrower", "list_borrowers", "create_borrower"}
      [] m = "loans" -> {"list_loans", "get_loan_balance", "create_loan"}
      [] m = "payments" -> {"record_payment"}

Tools == UNION {ToolsOf(m) : m \in ToolModules}

\* server.py:65-70: the operations the FastMCP instance exposes
Exposed == UNION {ToolsOf(m) : m \in Imported}

VARIABLES
    access_token,   \* AuthManager.access_token (Absent = None)
    refresh_token,  \* AuthManager.refresh_token (Absent = None)
    expires_at,     \* AuthManager.expires_at
    now,            \* time.time()
    issued,         \* number of success responses the provider has sent
    pc,             \* position of each coroutine
    rf,             \* the login()/refresh() call each coroutine made last
    call,           \* the verb call (for main: the probe) each coroutine made last
    lastUpd,        \* the response the last successful login()/refresh() applied
    life,           \* the lifespan's tally: login() calls made, transports
                    \* (the shared httpx.AsyncClient) created and closed
    environ,        \* the settings the environment (BATMC_* and .env) provides
    tool            \* the tool handler under observation

vars == <<access_token, refresh_token, expires_at, now, issued, pc, rf, call,
          lastUpd, life, environ, tool>>

session == <<access_token, refresh_token, expires_at>>

\* ------------------------------------------------------- pure operations

\* config.py:24-28 and pydantic's BaseSettings: MCPConfig() from the settings
\* e succeeds when every field that has no default is provided; a field with
\* a default that is not provided takes the default
ConfigLoadsWithoutPassword(e) == \A s \in (Settings \ HasDefault) \ {"user_password"} : s \in e
ConfigLoads(e) == \A s \in Settings \ HasDefault : s \in e

\* auth.py:48, the expiry test of get_headers()
ExpiredStrict(t, exp) == t > exp
ExpiredEarly(t, exp) == t >= exp - 1
ExpiredNever(t, exp) == FALSE
Expired(t, exp) == t >= exp

\* auth.py:55
ExpiresAtNoMargin(t, expires_in) == t + expires_in
ExpiresAt(t, expires_in) == t + expires_in - SafetyMargin

\* auth.py:50
BuildHeaders(tok) == [Authorization |-> <<"Bearer", tok>>]

\* httpx Response.raise_for_status() as used in auth.py:30 and auth.py:42
RaisesNever(status) == FALSE
RaisesForStatus(status) == status < 200 \/ status > 299

\* api_client.py:22 (and 33, 44, 55): the only test of the status; it is
\* evaluated after the first request of a call only
ShouldRetryPutAlways(verb, attempt, status) ==
    IF verb = "PUT" THEN status = Unauthorized
    ELSE attempt = 1 /\ status = Unauthorized
ShouldRetryDeleteTwice(verb, attempt, status) ==
    IF verb = "DELETE" THEN attempt <= 2 /\ status = Unauthorized
    ELSE attempt = 1 /\ status = Unauthorized
ShouldRetryPostNon200(verb, attempt, status) ==
    IF verb = "POST" THEN attempt = 1 /\ status # 200
    ELSE attempt = 1 /\ status = Unauthorized
ShouldRetryGetNever(verb, attempt, status) ==
    IF verb = "GET" THEN FALSE ELSE attempt = 1 /\ status = Unauthorized
ShouldRetry(verb, attempt, status) == attempt = 1 /\ status = Unauthorized

\* The JSON body of a provider response: a record with the fields present.
Body(id, shape, expires_in) ==
    [has_access_token |-> shape # "no_access_token",
     has_refresh_token |-> shape # "no_refresh_token",
     has_expires_in |-> shape # "no_expires_in",
     access_token |-> id, refresh_token |-> id, expires_in |-> expires_in]

\* auth.py:52-55, _update_tokens(data) at time t on Session s: three
\* assignments in order; a missing key raises KeyError at its assignment and
\* the assignments before it stay done.
\* What the code does not do: merge a response into the Session, keeping a
\* refresh token that is already there
UpdateTokensKeepsRefreshToken(s, data, t) ==
    [access_token |-> data.access_token,
     refresh_token |-> IF s.refresh_token # Absent THEN s.refresh_token
                       ELSE data.refresh_token,
     expires_at |-> ExpiresAt(t, data.expires_in),
     ok |-> data.has_access_token /\ data.has_refresh_token /\ data.has_expires_in]

UpdateTokens(s, data, t) ==
    LET s1 == IF data.has_access_token
              THEN [s EXCEPT !.access_token = data.access_token]
              ELSE [s EXCEPT !.ok = FALSE]
        s2 == IF ~s1.ok THEN s1
              ELSE IF data.has_refresh_token
                   THEN [s1 EXCEPT !.refresh_token = data.refresh_token]
                   ELSE [s1 EXCEPT !.ok = FALSE]
        s3 == IF ~s2.ok THEN s2
              ELSE IF data.has_expires_in
                   THEN [s2 EXCEPT !.expires_at = ExpiresAt(t, data.expires_in)]
                   ELSE [s2 EXCEPT !.ok = FALSE]
    IN s3

Sess == [access_token |-> access_token, refresh_token |-> refresh_token,
         expires_at |-> expires_at, ok |-> TRUE]


\* --------------------------------------------------------- record shapes
\* no login() or refresh() call yet
NoRf == [kind |-> "none", st |-> "none", sent |-> 0, rt |-> Absent,
         status |-> 0, id |-> Absent]

\* no verb call yet. pre: the access token when the call began; hdrs: the headers of the requests sent to the lending
\* API, in order; resps: the responses received, in order (body n stands for
\* the body the API sent in answer to the call's n-th request); ret: the
\* returned response, if any; refs: refresh requests sent during the call;
\* refsPost: those sent after the first response; recheck: what the expiry
\* test of the second get_headers() found.
\* path, payload: the arguments of the verb; reqs: the requests handed to
\* the transport, in order.
NoCall == [verb |-> "none", pre |-> Absent, hdrs |-> <<>>, resps |-> <<>>, ret |-> <<>>,
           refs |-> 0, refsPost |-> 0, recheck |-> "none",
           path |-> "none", payload |-> <<>>, reqs |-> <<>>]

\* api_client.py:18, 29, 40, 51: the arguments each verb takes besides the
\* path: get has params, post and put have json, delete has none
PayloadOf(verb) ==
    CASE verb = "GET" -> <<"params", "args">>
      [] verb \in {"POST", "PUT"} -> <<"json", "args">>
      [] OTHER -> <<>>

\* What the code does not do: reissue the call without its params/json
RequestRetryBare(c, h) ==
    [method |-> c.verb, path |-> c.path,
     payload |-> IF Len(c.reqs) = 0 THEN c.payload ELSE <<>>, headers |-> h]

\* api_client.py:20 and 26 (31/37, 42/48, 53/59), server.py:51: the request
\* the transport is handed, built from the verb's arguments and the headers h
Request(c, h) ==
    [method |-> c.verb, path |-> c.path, payload |-> c.payload, headers |-> h]

\* server.py:51: the probe is a GET of /ping with no params
ProbeCall == [NoCall EXCEPT !.verb = "GET", !.path = "/ping"]

\* no login() or refresh() has succeeded yet. at: the time the response was
\* applied; expires_in: the lifetime it declared.
NoUpd == [id |-> Absent, at |-> 0, expires_in |-> 0]

\* no tool handler observed. variant: the branch its arguments select;
\* phase: the verb call it is in; reqs: verb calls made; st: waiting,
\* returned or raised; result: what it returned; got: the last response it
\* received; gotPhase: the verb call that response answered.
NoTool == [name |-> "none", variant |-> "none", phase |-> "none", reqs |-> 0,
           st |-> "none", result |-> "none", got |-> <<>>, gotPhase |-> "none"]

\* ------------------------------------------------------- the tool handlers
\* Statuses, content types and bodies of the final response a verb call hands
\* to a handler; "object" is a JSON object, "not_json" any body that
\* response.json() cannot parse
ToolStatuses == {200, 201, 400, 404, 422, 500}
ContentTypes == {"json", "other"}
BodyKinds == {"object", "not_json"}
Matches == {"none", "one", "many"}

\* borrowers.py: list_borrowers branches on active_only; loans.py: list_loans
\* branches on borrower_name
VariantsOf(name) ==
    CASE name = "list_borrowers" -> {"active_only", "all"}
      [] name = "list_loans" -> {"by_borrower", "all"}
      [] OTHER -> {"only"}

Returned(t, result) == [t EXCEPT !.st = "returned", !.result = result]
Raised(t) == [t EXCEPT !.st = "raised"]
NextCall(t, phase) == [t EXCEPT !.phase = phase, !.reqs = @ + 1]

\* response.json(): raises unless the body is JSON; then the handler formats
\* the object
Formatted(t, r) == IF r.body = "object" THEN Returned(t, "text") ELSE Raised(t)

\* borrowers.py:35, 68, 83, 125: the error string is built from
\* response.json().get('detail', response.text) whatever the content type
InlineError(t, r) ==
    IF r.body = "object" THEN Returned(t, "error_string") ELSE Raised(t)

\* loans.py:22-29 and payments.py:18-25, _extract_error: response.json() only
\* when the content type says JSON, response.text otherwise
ExtractError(t, r) ==
    IF r.ctype = "json" THEN InlineError(t, r) ELSE Returned(t, "error_string")

\* The handler t receives the final response r of its verb call; m is the
\* number of borrowers that match the name (list_loans only).
Handle(t, r, m) ==
    CASE t.name \in {"find_borrower", "list_borrowers"} ->
            IF r.status # 200 THEN InlineError(t, r) ELSE Formatted(t, r)
      [] t.name = "create_borrower" ->
            IF r.status = 201 THEN Formatted(t, r)
            ELSE IF r.status = 422 THEN InlineError(t, r)
            ELSE InlineError(t, r)
      [] t.name = "list_loans" /\ t.phase = "first" ->
            IF r.status # 200 THEN ExtractError(t, r)
            ELSE IF r.body # "object" THEN Raised(t)
            ELSE IF t.variant = "all" THEN NextCall(t, "balance")
            ELSE IF m = "one" THEN NextCall(t, "detail")
            ELSE Returned(t, "text")
      [] t.name = "list_loans" /\ t.phase = "detail" ->
            IF r.status # 200 THEN ExtractError(t, r)
            ELSE IF r.body # "object" THEN Raised(t)
            ELSE NextCall(t, "balance")
      [] t.name = "list_loans" /\ t.phase = "balance" ->
            Returned(t, "text")
      [] t.name = "get_loan_balance" /\ t.phase = "first" ->
            IF r.status = 404 THEN Returned(t, "error_string")
            ELSE IF r.status # 200 THEN ExtractError(t, r)
            ELSE IF r.body # "object" THEN Raised(t)
            ELSE NextCall(t, "balance")
      [] t.name = "get_loan_balance" /\ t.phase = "balance" ->
            IF r.status = 200 THEN Formatted(t, r) ELSE Returned(t, "text")
      [] t.name = "create_loan" ->
            IF r.status = 201 THEN Formatted(t, r) ELSE ExtractError(t, r)
      [] t.name = "record_payment" ->
            IF r.status = 201 THEN Formatted(t, r) ELSE ExtractError(t, r)

\* server.py:35-40 and auth.py:13-20: the state after construction, in an
\* environment that provides every setting
Constructed ==
    /\ access_token = Absent
    /\ refresh_token = Absent
    /\ expires_at = 0
    /\ now = 0
    /\ issued = 0
    /\ pc = [p \in Procs |-> IF p = Main THEN "start" ELSE "idle"]
    /\ rf = [p \in Procs |-> NoRf]
    /\ call = [p \in Procs |-> NoCall]
    /\ lastUpd = NoUpd
    /\ life = [logins |-> 0, opened |-> 0, closed |-> 0]
    /\ tool = NoTool

Init == Constructed /\ environ = Settings

\* server.py:58-59: tool invocations run between the lifespan's yield and its
\* resumption; before and after, no handler of the server runs
ServingAnytime == TRUE
Serving == pc[Main] = "serving"

\* ------------------------------------------------- fragments of one action

\* auth.py:36-41 (and 24-29): the provider request is sent; it carries the
\* refresh_token as it stands now
\* What the code does not do: keep submitting the refresh token of the login
NewRequestLoginToken(kind) ==
    [kind |-> kind, st |-> "wait", sent |-> 1,
     rt |-> IF refresh_token = Absent THEN Absent ELSE 1,
     status |-> 0, id |-> Absent]

NewRequest(kind) ==
    [kind |-> kind, st |-> "wait", sent |-> 1, rt |-> refresh_token,
     status |-> 0, id |-> Absent]

\* api_client.py:19-20 / server.py:51: the caller of get_headers() sends its
\* lending-API request with the headers h, without suspending in between
SendRequest(p, c, h) ==
    /\ call' = [call EXCEPT ![p] = [c EXCEPT !.hdrs = Append(@, h),
                                             !.reqs = Append(@, Request(c, h))]]
    /\ pc' = [pc EXCEPT ![p] = IF p = Main THEN "ping_wait" ELSE "req_wait"]

\* auth.py:46-50, get_headers() up to its first suspension, called by p whose
\* call record is c and whose login/refresh record is r
GetHeaders(p, c, r) ==
    LET again == Len(c.resps) > 0
    IN IF Expired(now, expires_at)
       THEN /\ rf' = [rf EXCEPT ![p] = NewRequest("refresh")]
            /\ call' = [call EXCEPT ![p] =
                          [c EXCEPT !.refs = @ + 1,
                                    !.refsPost = IF again THEN @ + 1 ELSE @,
                                    !.recheck = IF again THEN "expired" ELSE @]]
            /\ pc' = [pc EXCEPT ![p] = "gh_wait"]
       ELSE /\ rf' = [rf EXCEPT ![p] = r]
            /\ SendRequest(p, [c EXCEPT !.recheck = IF again THEN "valid" ELSE @],
                           BuildHeaders(access_token))

\* server.py:52-59: the probe is over, whatever its outcome was (status s, or
\* 0 for an exception), the outcome is logged and its locals are dropped;
\* the lifespan yields the context and tool invocations are served. r is
\* what is left of the probe's refresh() call.
Served(s, r) ==
    /\ pc' = [pc EXCEPT ![Main] = "serving"]
    /\ call' = [call EXCEPT ![Main] = NoCall]
    /\ rf' = [rf EXCEPT ![Main] = r]

\* What the code does not do: a verb call that catches the error of its
\* refresh and falls back to the response it already holds
RaiseReturnsResponse(p, r) ==
    IF p \in Tasks /\ Len(call[p].resps) > 0
    THEN /\ pc' = [pc EXCEPT ![p] = "done"]
         /\ rf' = [rf EXCEPT ![p] = r]
         /\ call' = [call EXCEPT ![p].ret = <<call[p].resps[Len(call[p].resps)]>>]
    ELSE IF p = Main /\ pc[p] # "login_wait"
         THEN Served(0, r)
         ELSE /\ pc' = [pc EXCEPT ![p] = IF p = Main THEN "init_failed" ELSE "raised"]
              /\ rf' = [rf EXCEPT ![p] = r]
              /\ UNCHANGED call

\* What the code does not do: let an error of the probe end the lifespan
RaiseProbeFatal(p, r) ==
    /\ pc' = [pc EXCEPT ![p] = IF p = Main THEN "init_failed" ELSE "raised"]
    /\ rf' = [rf EXCEPT ![p] = r]
    /\ UNCHANGED call

\* What the code does not do: get_headers() of a verb call catching the
\* error of its refresh and answering with the header of the token it has
RaiseSendsStaleHeader(p, r) ==
    IF p \in Tasks /\ pc[p] = "gh_wait"
    THEN /\ rf' = [rf EXCEPT ![p] = r]
         /\ SendRequest(p, call[p], BuildHeaders(access_token))
    ELSE IF p = Main /\ pc[p] # "login_wait"
         THEN Served(0, r)
         ELSE /\ pc' = [pc EXCEPT ![p] = IF p = Main THEN "init_failed" ELSE "raised"]
              /\ rf' = [rf EXCEPT ![p] = r]
              /\ UNCHANGED call

\* An exception leaves login(), refresh() or get_headers() of p, whose
\* login/refresh record becomes r: server.py:41 lets a login error end the
\* lifespan, server.py:50-54 catches whatever the probe raises,
\* api_client.py lets it leave the verb call.
Raise(p, r) ==
    IF p = Main /\ pc[p] # "login_wait"
    THEN Served(0, r)
    ELSE /\ pc' = [pc EXCEPT ![p] = IF p = Main THEN "init_failed" ELSE "raised"]
         /\ rf' = [rf EXCEPT ![p] = r]
         /\ UNCHANGED call

\* ------------------------------------------------------------------ actions

\* time.time() advances between any two steps
Tick ==
    /\ now < MaxTime
    /\ now' = now + 1
    /\ UNCHANGED <<access_token, refresh_token, expires_at, issued, pc, rf,
                   call, lastUpd, life, environ, tool>>

\* server.py:32-41 and auth.py:22-29: the lifespan loads the configuration
\* (a ValidationError of MCPConfig() ends it there), builds the AuthManager
\* and login() sends the password-grant request
Login ==
    /\ pc[Main] = "start"
    /\ IF ConfigLoads(environ)
       THEN /\ rf' = [rf EXCEPT ![Main] = NewRequest("login")]
            /\ pc' = [pc EXCEPT ![Main] = "login_wait"]
            /\ life' = [life EXCEPT !.logins = @ + 1]
       ELSE /\ pc' = [pc EXCEPT ![Main] = "config_failed"]
            /\ UNCHANGED <<rf, life>>
    /\ UNCHANGED <<access_token, refresh_token, expires_at, now, issued, call,
                   lastUpd, environ, tool>>

\* auth.py:30-31 and auth.py:42-43: the provider's response to p's login or
\* refresh request arrives; raise_for_status(), then _update_tokens(). A
\* rejection carries no token fields the code reads, so its body is fixed.
ProviderResponse(p) ==
    /\ pc[p] \in {"login_wait", "gh_wait", "fr_wait"}
    /\ p \in Tasks => Serving
    /\ \E status \in ProviderStatuses, shape \in Shapes, ein \in ExpiresIns :
        /\ status = 200 => issued < MaxIssued
        /\ status # 200 => shape = "full" /\ ein = 3600
        /\ LET data == Body(issued + 1, shape, ein)
               u == UpdateTokens(Sess, data, now)
           IN IF RaisesForStatus(status)
              THEN /\ Raise(p, [rf[p] EXCEPT !.st = "raised", !.status = status])
                   /\ UNCHANGED <<access_token, refresh_token, expires_at,
                                  issued, lastUpd>>
              ELSE /\ access_token' = u.access_token
                   /\ refresh_token' = u.refresh_token
                   /\ expires_at' = u.expires_at
                   /\ issued' = issued + 1
                   /\ lastUpd' = IF u.ok
                                 THEN [id |-> data.access_token, at |-> now,
                                       expires_in |-> data.expires_in]
                                 ELSE lastUpd
                   /\ IF u.ok
                      THEN /\ rf' = [rf EXCEPT ![p].st = "close",
                                               ![p].status = status,
                                               ![p].id = data.access_token]
                           /\ pc' = [pc EXCEPT ![p] =
                                       CASE pc[p] = "login_wait" -> "login_close"
                                         [] pc[p] = "gh_wait" -> "gh_close"
                                         [] pc[p] = "fr_wait" -> "fr_close"]
                           /\ UNCHANGED call
                      ELSE Raise(p, [rf[p] EXCEPT !.st = "raised",
                                                  !.status = status,
                                                  !.id = data.access_token])
    /\ UNCHANGED <<now, life, environ, tool>>

\* auth.py:25-29 and 37-41: p's login or refresh request ends without an HTTP
\* status (timeout, connection error): client.post raises, nothing after it
\* in login()/refresh() runs. The record keeps status 0.
ProviderFailure(p) ==
    /\ pc[p] \in {"login_wait", "gh_wait", "fr_wait"}
    /\ p \in Tasks => Serving
    /\ Raise(p, [rf[p] EXCEPT !.st = "raised"])
    /\ UNCHANGED <<access_token, refresh_token, expires_at, now, issued, lastUpd, life, environ, tool>>

\* auth.py:32 and server.py:42-51: the one-shot client of login() is closed,
\* login() returns, the lifespan creates the transport and the health probe
\* asks for headers
LoginClosed ==
    /\ pc[Main] = "login_close"
    /\ life' = [life EXCEPT !.opened = @ + 1]
    /\ GetHeaders(Main, ProbeCall, [rf[Main] EXCEPT !.st = "returned"])
    /\ UNCHANGED <<access_token, refresh_token, expires_at, now, issued, lastUpd,
                   environ, tool>>

\* auth.py:44 and 50: the one-shot client of the refresh that get_headers()
\* started is closed, refresh() returns, and get_headers() returns the header
\* built from the access token as it stands now; the caller sends its request
ProactiveRefreshClosed(p) ==
    /\ pc[p] = "gh_close"
    /\ p \in Tasks => Serving
    /\ rf' = [rf EXCEPT ![p].st = "returned"]
    /\ SendRequest(p, call[p], BuildHeaders(access_token))
    /\ UNCHANGED <<access_token, refresh_token, expires_at, now, issued, lastUpd, life, environ, tool>>

\* server.py:51-54: the probe's response arrives (its status is only logged)
\* and the lifespan yields: tool invocations are served from now on
PingResponse ==
    /\ pc[Main] = "ping_wait"
    /\ \E s \in ApiStatuses : Served(s, NoRf)
    /\ UNCHANGED <<access_token, refresh_token, expires_at, now, issued, lastUpd, life, environ, tool>>

\* server.py:50-54: the /ping request ends without an HTTP status; the
\* exception is caught and logged, and the lifespan yields
PingFailure ==
    /\ pc[Main] = "ping_wait"
    /\ Served(0, NoRf)
    /\ UNCHANGED <<access_token, refresh_token, expires_at, now, issued, lastUpd, life, environ, tool>>

\* api_client.py:18-20 (29-31, 40-42, 51-53): a tool invocation calls a verb
\* of the client; the call asks for headers. A task is one verb call.
StartCall(p) ==
    /\ p \in Tasks
    /\ Serving
    /\ pc[p] = "idle"
    /\ \E v \in VerbsOf(p) :
          GetHeaders(p, [NoCall EXCEPT !.verb = v, !.pre = access_token,
                                       !.path = "/path", !.payload = PayloadOf(v)],
                     rf[p])
    /\ UNCHANGED <<access_token, refresh_token, expires_at, now, issued, lastUpd, life, environ, tool>>

\* api_client.py:21-27: the lending API's response to p's request arrives;
\* after a 401 to the first request refresh() is called, otherwise the
\* response is returned
ApiResponse(p) ==
    /\ p \in Tasks
    /\ Serving
    /\ pc[p] = "req_wait"
    /\ \E s \in ApiStatuses :
        LET resp == [status |-> s, body |-> Len(call[p].hdrs)]
            c == [call[p] EXCEPT !.resps = Append(@, resp)]
        IN IF ShouldRetry(c.verb, Len(c.resps), s)
           THEN /\ rf' = [rf EXCEPT ![p] = NewRequest("refresh")]
                /\ call' = [call EXCEPT ![p] =
                              [c EXCEPT !.refs = @ + 1, !.refsPost = @ + 1]]
                /\ pc' = [pc EXCEPT ![p] = "fr_wait"]
           ELSE /\ rf' = rf
                /\ call' = [call EXCEPT ![p] = [c EXCEPT !.ret = <<resp>>]]
                /\ pc' = [pc EXCEPT ![p] = "done"]
    /\ UNCHANGED <<access_token, refresh_token, expires_at, now, issued, lastUpd, life, environ, tool>>

\* What the code does not do: treat a request that ended without a status
\* like a 401 and force a refresh
ApiFailureRefreshes(p) ==
    /\ p \in Tasks
    /\ Serving
    /\ pc[p] = "req_wait"
    /\ rf' = [rf EXCEPT ![p] = NewRequest("refresh")]
    /\ call' = [call EXCEPT ![p].refs = @ + 1, ![p].refsPost = @ + 1]
    /\ pc' = [pc EXCEPT ![p] = "fr_wait"]
    /\ UNCHANGED <<access_token, refresh_token, expires_at, now, issued, lastUpd, life, environ, tool>>

\* api_client.py:20 and 26 (31/37, 42/48, 53/59): p's lending-API request
\* ends without an HTTP status; self.http.<verb> raises and, with no handler
\* in the verb, the exception leaves the call
ApiFailure(p) ==
    /\ p \in Tasks
    /\ Serving
    /\ pc[p] = "req_wait"
    /\ pc' = [pc EXCEPT ![p] = "raised"]
    /\ UNCHANGED <<access_token, refresh_token, expires_at, now, issued, lastUpd,
                   rf, call, life, environ, tool>>

\* auth.py:44 and api_client.py:24-26: the one-shot client of the forced
\* refresh is closed, refresh() returns and the call asks for headers again
ForcedRefreshClosed(p) ==
    /\ p \in Tasks
    /\ Serving
    /\ pc[p] = "fr_close"
    /\ GetHeaders(p, call[p], [rf[p] EXCEPT !.st = "returned"])
    /\ UNCHANGED <<access_token, refresh_token, expires_at, now, issued, lastUpd, life, environ, tool>>

\* server.py:58-62: serving ends (the server stops, fails, or the lifespan is
\* cancelled while suspended at its yield); the finally clause closes the
\* transport. The handlers of the server have ended by then and their
\* locals are gone.
Shutdown ==
    /\ Serving
    /\ pc' = [p \in Procs |-> IF p = Main THEN "closed" ELSE "gone"]
    /\ call' = [p \in Procs |-> NoCall]
    /\ rf' = [p \in Procs |-> IF p = Main THEN rf[p] ELSE NoRf]
    /\ life' = [life EXCEPT !.closed = @ + 1]
    /\ UNCHANGED <<access_token, refresh_token, expires_at, now, issued, lastUpd,
                   environ, tool>>

\* server.py:41 and 50-54: the lifespan is cancelled while it waits in
\* login() or in the probe. CancelledError is not an Exception, so the
\* except clause of the probe does not catch it, and no finally clause
\* encloses these lines: the lifespan ends there.
Cancel ==
    /\ pc[Main] \in {"login_wait", "login_close", "gh_wait", "gh_close", "ping_wait"}
    /\ pc' = [pc EXCEPT ![Main] = "cancelled"]
    /\ UNCHANGED <<access_token, refresh_token, expires_at, now, issued, lastUpd,
                   rf, call, life, environ, tool>>

Next ==
    \/ Tick
    \/ Login
    \/ LoginClosed
    \/ PingResponse
    \/ PingFailure
    \/ \E p \in Procs : ProviderResponse(p)
    \/ \E p \in Procs : ProviderFailure(p)
    \/ \E p \in Procs : ProactiveRefreshClosed(p)
    \/ \E p \in Tasks : StartCall(p)
    \/ \E p \in Tasks : ApiResponse(p)
    \/ \E p \in Tasks : ApiFailure(p)
    \/ \E p \in Tasks : ForcedRefreshClosed(p)
    \/ Shutdown
    \/ Cancel

Spec == Init /\ [][Next]_vars

\* A tool invocation begins: the handler makes its first verb call
ToolInvoke ==
    /\ tool = NoTool
    /\ \E name \in Tools : \E v \in VariantsOf(name) :
          tool' = [NoTool EXCEPT !.name = name, !.variant = v, !.phase = "first",
                                 !.reqs = 1, !.st = "waiting"]
    /\ UNCHANGED <<access_token, refresh_token, expires_at, now, issued, pc, rf,
                   call, lastUpd, life, environ>>

\* The verb call of the handler returns its final response
ToolResponse ==
    /\ tool.st = "waiting"
    /\ \E status \in ToolStatuses, ctype \in ContentTypes, body \in BodyKinds,
          m \in Matches :
          LET r == [status |-> status, ctype |-> ctype, body |-> body]
              t == [tool EXCEPT !.got = <<r>>, !.gotPhase = tool.phase]
          IN tool' = Handle(t, r, m)
    /\ UNCHANGED <<access_token, refresh_token, expires_at, now, issued, pc, rf,
                   call, lastUpd, life, environ>>

\* The verb call of the handler raises (a failed refresh, a transport
\* failure): loans.py:121-127 catches it around the balance lookup of
\* list_loans, no other handler has a handler for it
ToolVerbRaises ==
    /\ tool.st = "waiting"
    /\ tool' = IF tool.name = "list_loans" /\ tool.phase = "balance"
               THEN Returned(tool, "text")
               ELSE Raised(tool)
    /\ UNCHANGED <<access_token, refresh_token, expires_at, now, issued, pc, rf,
                   call, lastUpd, life, environ>>

\* One tool invocation, given the final response of each of its verb calls
NextTool ==
    \/ ToolInvoke
    \/ ToolResponse
    \/ ToolVerbRaises

ToolSpec == Init /\ [][NextTool]_vars

\* The AuthManager and the APIClient on their own: verb calls made through a
\* freshly constructed AuthManager (auth.py:13-20) on which login() was never
\* called
InitAuth ==
    /\ access_token = Absent
    /\ refresh_token = Absent
    /\ expires_at = 0
    /\ now = 0
    /\ issued = 0
    /\ pc = [p \in Procs |-> IF p = Main THEN "serving" ELSE "idle"]
    /\ rf = [p \in Procs |-> NoRf]
    /\ call = [p \in Procs |-> NoCall]
    /\ lastUpd = NoUpd
    /\ life = [logins |-> 0, opened |-> 1, closed |-> 0]
    /\ tool = NoTool
    /\ environ = Settings

NextAuth ==
    \/ Tick
    \/ \E p \in Tasks : StartCall(p)
    \/ \E p \in Tasks : ProviderResponse(p)
    \/ \E p \in Tasks : ProviderFailure(p)
    \/ \E p \in Tasks : ProactiveRefreshClosed(p)
    \/ \E p \in Tasks : ApiResponse(p)
    \/ \E p \in Tasks : ApiFailure(p)
    \/ \E p \in Tasks : ForcedRefreshClosed(p)

AuthSpec == InitAuth /\ [][NextAuth]_vars

\* Startup, up to the outcome of login(), in every environment: any subset
\* of the settings may be provided
InitConfig == Constructed /\ environ \in SUBSET Settings

NextConfig ==
    \/ Tick
    \/ Login
    \/ ProviderResponse(Main)
    \/ ProviderFailure(Main)

ConfigSpec == InitConfig /\ [][NextConfig]_vars

\* ------------------------------------------------------ reading the state
Tok(h) == h.Authorization[2]
LastHdr(c) == c.hdrs[Len(c.hdrs)]
Bearer(tok) == [Authorization |-> <<"Bearer", tok>>]
First401(c) == Len(c.resps) >= 1 /\ c.resps[1].status = 401
FirstNot401(c) == Len(c.resps) >= 1 /\ c.resps[1].status # 401

\* in this step p runs code of its own (it is neither cancelled nor ended by
\* the shutdown of the server)
Steps(p) == pc'[p] \notin {pc[p], "cancelled", "gone"}

\* p is about to call get_headers(): the probe after login(), a verb call at
\* its start, a verb call after its forced refresh
Asking(p) ==
    \/ p = Main /\ pc[p] = "login_close"
    \/ p \in Tasks /\ pc[p] \in {"idle", "fr_close"}
\* in this step get_headers() returned to p, which sent its request
GotHeaders(p) ==
    /\ pc[p] \in {"login_close", "idle", "fr_close", "gh_close"}
    /\ pc'[p] \in {"req_wait", "ping_wait"}

\* ------------------------------------------------------------------- C1
\* C1 as stated: a verb call that returned after a first 401 sent exactly one
\* refresh request after that 401 and exactly one retry, whose headers
\* differ from those of the first request.
C1_ExactlyOneRefresh ==
    \A p \in Tasks :
        pc[p] = "done" /\ First401(call[p]) =>
            /\ call[p].refsPost = 1
            /\ Len(call[p].hdrs) = 2
            /\ Tok(call[p].hdrs[2]) # Tok(call[p].hdrs[1])

\* C1 amended: after a first 401 the call sends the forced refresh and, only
\* when the get_headers() that follows finds the Session expired, one more;
\* a call that returns has sent exactly one retry, with headers built after
\* the refresh; a call whose refresh failed has sent none (a call that
\* raised otherwise lost its one retry to a transport failure); whatever the
\* retry's status (401 included), it is returned and nothing more is sent.
C1_RetryOnce ==
    \A p \in Tasks :
        First401(call[p]) =>
            /\ call[p].refsPost = IF call[p].recheck = "expired" THEN 2 ELSE 1
            /\ Len(call[p].hdrs) <= 2
            /\ pc[p] \in {"fr_wait", "fr_close", "gh_wait", "gh_close",
                          "req_wait", "done", "raised"}
            /\ pc[p] = "raised" =>
                /\ Len(call[p].resps) = 1
                /\ Len(call[p].hdrs) = IF rf[p].st = "raised" THEN 1 ELSE 2
            /\ pc[p] = "done" =>
                /\ Len(call[p].hdrs) = 2
                /\ Len(call[p].resps) = 2
                /\ call[p].recheck \in {"valid", "expired"}
                /\ Tok(call[p].hdrs[2]) > Tok(call[p].hdrs[1])
                /\ call[p].ret = <<call[p].resps[2]>>

C1_Witness ==
    \E p \in Tasks :
        /\ pc[p] = "done"
        /\ call[p].verb = "DELETE"
        /\ Len(call[p].resps) = 2
        /\ call[p].resps[1].status = 401
        /\ call[p].resps[2].status = 401
        /\ call[p].refsPost = 1

\* ------------------------------------------------------------------- C2
\* C2 as stated: a verb call whose response is not a 401 sent no refresh
\* request at all, whatever the Session was, and returned that response.
C2_NoRefreshAtAll ==
    \A p \in Tasks :
        pc[p] = "done" /\ FirstNot401(call[p]) =>
            /\ call[p].refs = 0
            /\ call[p].ret = <<call[p].resps[1]>>

\* C2 amended: a first response that is not a 401 ends the call at once: no
\* refresh request is sent after it, no second request is sent, and it is
\* returned as received; the one refresh such a call can have sent is the
\* proactive one of get_headers(), before the request.
C2_NoRefreshAfterResponse ==
    \A p \in Tasks :
        FirstNot401(call[p]) =>
            /\ pc[p] = "done"
            /\ call[p].refsPost = 0
            /\ call[p].refs <= 1
            /\ Len(call[p].hdrs) = 1
            /\ Len(call[p].resps) = 1
            /\ call[p].ret = <<call[p].resps[1]>>

C2_Witness ==
    \E p \in Tasks :
        /\ pc[p] = "done"
        /\ call[p].verb = "POST"
        /\ call[p].resps[1].status = 404
        /\ call[p].refs = 1

\* ------------------------------------------------------------------- C3
\* C3: a get_headers() call made when now < expires_at sends no provider
\* request, leaves the Session as it is and returns the one-entry mapping
\* Authorization: Bearer <access_token>; one made when now >= expires_at
\* sends a refresh request before any header is returned.
C3_ValidTokenNoRefresh ==
    [][\A p \in Procs :
        Asking(p) /\ Steps(p) =>
            /\ now < expires_at =>
                /\ GotHeaders(p)
                /\ session' = session
                /\ rf'[p].st # "wait"
                /\ call'[p].refs = call[p].refs
                /\ Len(call'[p].hdrs) = Len(call[p].hdrs) + 1
                /\ LastHdr(call'[p]) = [Authorization |-> <<"Bearer", access_token>>]
                /\ DOMAIN LastHdr(call'[p]) = {"Authorization"}
            /\ now >= expires_at =>
                /\ pc'[p] = "gh_wait"
                /\ rf'[p].st = "wait"
                /\ Len(call'[p].hdrs) = Len(call[p].hdrs)]_vars

C3_Witness ==
    \E p \in Tasks :
        /\ pc[p] = "req_wait"
        /\ call[p].refs = 0
        /\ now = expires_at - 1
        /\ call[p].hdrs = <<Bearer(access_token)>>

\* ------------------------------------------------------------------- C4
\* C4 as stated: the header get_headers() returns after its refresh carries
\* the access token that refresh delivered.
C4_HeaderFromOwnRefresh ==
    [][\A p \in Procs :
        pc[p] = "gh_close" /\ Steps(p) =>
            LastHdr(call'[p]) = Bearer(rf[p].id)]_vars

\* C4 amended: a get_headers() call made when now >= expires_at sends exactly
\* one refresh request and returns no header before its success; the header
\* carries the Session's access token as it stands at the return: the token
\* that refresh delivered or, when another call's refresh was applied in
\* between, a token delivered after it.
C4_OneRefreshThenHeader ==
    [][\A p \in Procs :
        /\ Asking(p) /\ Steps(p) /\ now >= expires_at =>
            /\ pc'[p] = "gh_wait"
            /\ rf'[p].kind = "refresh" /\ rf'[p].sent = 1
            /\ call'[p].refs = call[p].refs + 1
            /\ Len(call'[p].hdrs) = Len(call[p].hdrs)
        /\ pc[p] = "gh_wait" /\ pc'[p] = "gh_close" =>
            /\ call'[p] = call[p]
            /\ rf'[p].sent = 1 /\ rf'[p].status = 200
            /\ access_token' = rf'[p].id
        /\ pc[p] = "gh_close" /\ Steps(p) =>
            /\ GotHeaders(p)
            /\ call'[p].refs = call[p].refs
            /\ rf'[p] = [rf[p] EXCEPT !.st = "returned"]
            /\ Len(call'[p].hdrs) = Len(call[p].hdrs) + 1
            /\ LastHdr(call'[p]) = Bearer(access_token)
            /\ access_token >= rf[p].id]_vars

C4_Witness ==
    \E p \in Tasks :
        /\ pc[p] = "req_wait"
        /\ call[p].refs = 1
        /\ Len(call[p].resps) = 0
        /\ rf[p].st = "returned"
        /\ call[p].hdrs = <<Bearer(rf[p].id)>>

\* ------------------------------------------------------------------- C5
\* C5: once login() has succeeded, expires_at is the time at which the
\* response of the last successful login() or refresh() was applied, plus
\* the expires_in of that response, minus 60.
C5_ExpiresAtForm ==
    /\ lastUpd.id # Absent =>
        expires_at = lastUpd.at + lastUpd.expires_in - 60
    /\ (pc[Main] \notin {"start", "login_wait", "init_failed", "cancelled"}
          \/ life.opened = 1) =>
        lastUpd.id # Absent

C5_Witness ==
    \E p \in Tasks :
        /\ pc[p] = "fr_close"
        /\ lastUpd = [id |-> rf[p].id, at |-> 1, expires_in |-> 3600]
        /\ now = 1
        /\ expires_at = 3541

\* ------------------------------------------------------------------- C6
\* C6: while requests are served, access_token and refresh_token were both
\* delivered by one and the same response (before the first login both are
\* absent); no response, whatever fields its body lacks, changes one alone.
C6_TokensTogether ==
    /\ pc[Main] \in {"start", "login_wait"} =>
        access_token = Absent /\ refresh_token = Absent
    /\ pc[Main] = "serving" => access_token = refresh_token

\* ------------------------------------------------------------------- C7
\* C7 as stated: whenever get_headers() returns a header, on either path,
\* now < expires_at holds for the Session the token is read from.
C7_AlwaysWithinMargin ==
    [][\A p \in Procs : GotHeaders(p) => now < expires_at]_vars

\* C7 amended: a header returned without a refresh carries a token within its
\* safety margin (now < expires_at); a header returned after a refresh is
\* built from the Session as it then stands, with no second expiry test, and
\* is within the margin exactly when the expires_in of the response last
\* applied exceeds 60 plus the time elapsed since it was applied.
C7_WithinMarginUnlessRefreshed ==
    [][\A p \in Procs :
        /\ Asking(p) /\ GotHeaders(p) =>
            /\ now < expires_at
            /\ LastHdr(call'[p]) = Bearer(access_token)
        /\ pc[p] = "gh_close" /\ GotHeaders(p) =>
            /\ LastHdr(call'[p]) = Bearer(access_token)
            /\ lastUpd.id >= rf[p].id
            /\ now < expires_at <=> lastUpd.expires_in > 60 + (now - lastUpd.at)]_vars

C7_Witness ==
    \E p \in Tasks :
        /\ pc[p] = "req_wait"
        /\ call[p].refs = 1
        /\ Len(call[p].resps) = 0
        /\ call[p].hdrs = <<Bearer(access_token)>>
        /\ lastUpd = [id |-> rf[p].id, at |-> now, expires_in |-> 60]
        /\ now >= expires_at

\* ------------------------------------------------------------------- C8
\* C8: a verb call sends at most two requests to the lending API, whatever
\* the statuses and whatever the other calls do.
C8_AtMostTwoRequests ==
    \A p \in Tasks :
        /\ Len(call[p].hdrs) <= 2
        /\ Len(call[p].resps) <= Len(call[p].hdrs)

C8_Witness ==
    \A p \in Tasks :
        /\ pc[p] = "done"
        /\ Len(call[p].hdrs) = 2
        /\ call[p].ret[1].status = 401

\* ------------------------------------------------------------------- C9
\* C9: a verb call returns the response to the last request it sent, as
\* received: the first response when that is not a 401, otherwise the
\* response to the retry, and then the Session's access token is no longer
\* the one of before the call but one delivered during it.
C9_ReturnsLastResponse ==
    \A p \in Tasks :
        /\ pc[p] # "done" => call[p].ret = <<>>
        /\ pc[p] = "done" =>
            /\ Len(call[p].resps) = Len(call[p].hdrs)
            /\ call[p].ret = <<call[p].resps[Len(call[p].resps)]>>
            /\ call[p].ret[1].body = Len(call[p].hdrs)
            /\ FirstNot401(call[p]) => Len(call[p].resps) = 1
            /\ First401(call[p]) =>
                /\ Len(call[p].resps) = 2
                /\ access_token > call[p].pre
                /\ access_token >= Tok(call[p].hdrs[2])
                /\ Tok(call[p].hdrs[2]) > call[p].pre

C9_Witness ==
    \E p \in Tasks :
        /\ pc[p] = "done"
        /\ call[p].verb = "GET"
        /\ call[p].resps[1].status = 401
        /\ call[p].ret = <<[status |-> 200, body |-> 2]>>
        /\ call[p].pre = 1
        /\ access_token = 2

\* ------------------------------------------------------------------ C10
\* C10: when the provider answers a refresh request with a non-success
\* status, refresh() raises after that one request: no Session field
\* changes, no other provider request (refresh or login) is sent, and the
\* error leaves the verb call.
C10_RejectedRefreshRaises ==
    [][\A p \in Procs :
        /\ pc[p] \in {"gh_wait", "fr_wait"}
        /\ Steps(p)
        /\ rf'[p].st # "wait"
        /\ (rf'[p].status < 200 \/ rf'[p].status > 299)
        => /\ session' = session
           /\ rf'[p] = [rf[p] EXCEPT !.st = "raised", !.status = rf'[p].status]
           /\ rf'[p].kind = "refresh" /\ rf'[p].sent = 1
           /\ p \in Tasks => pc'[p] = "raised" /\ call'[p] = call[p]
           /\ p = Main => pc'[p] = "serving"]_vars

C10_Witness ==
    \E p \in Tasks :
        /\ pc[p] = "raised"
        /\ rf[p].kind = "refresh" /\ rf[p].st = "raised" /\ rf[p].status = 400
        /\ rf[p].rt = refresh_token
        /\ access_token # Absent

\* ---------------------------------------------------------------------- C11
\* The forced refresh of p has failed: the first response was a 401, the
\* refresh that followed it raised, and no second get_headers() was reached
ForcedRefreshFailed(p) ==
    /\ First401(call[p])
    /\ rf[p].kind = "refresh"
    /\ rf[p].st = "raised"
    /\ call[p].recheck = "none"

\* C11: when a verb call receives 401 and the refresh it then forces fails,
\* the call ends with the refresh error (it raises), exactly one lending-API
\* request was made, and no response, the 401 included, is returned.
C11_FailedRefreshPropagates ==
    \A p \in Tasks :
        ForcedRefreshFailed(p) =>
            /\ pc[p] = "raised"
            /\ Len(call[p].hdrs) = 1
            /\ Len(call[p].resps) = 1
            /\ call[p].ret = <<>>

C11_Witness ==
    \E p \in Tasks :
        /\ ForcedRefreshFailed(p)
        /\ rf[p].status = 400
        /\ pc[p] = "raised"
        /\ Len(call[p].hdrs) = 1

\* ---------------------------------------------------------------------- C12
\* p's latest refresh() has succeeded: its response was applied in full
RefreshSucceeded(p) == rf[p].kind = "refresh" /\ rf[p].st \in {"close", "returned"}

\* the later of two token sets, in the order the provider issued them
Later(a, b) == IF a > b THEN a ELSE b

\* C12: nothing serialises check-then-refresh between concurrent verb calls;
\* when the refreshes of two calls have both succeeded, all three Session
\* fields are those of the response applied last (never access_token of one
\* response with refresh_token or expires_at of the other).
C12_LastRefreshWins ==
    \A p \in Tasks : \A q \in Tasks \ {p} :
        (RefreshSucceeded(p) /\ RefreshSucceeded(q)) =>
            LET last == Later(rf[p].id, rf[q].id)
            IN /\ access_token = last
               /\ refresh_token = last
               /\ lastUpd.id = last
               /\ expires_at = ExpiresAt(lastUpd.at, lastUpd.expires_in)

\* Both calls found the token expired and sent the same refresh token: the
\* second request left before the first response was applied, so two refresh
\* requests were in flight at once; both succeeded.
C12_Witness ==
    /\ pc["t1"] = "gh_close" /\ pc["t2"] = "gh_close"
    /\ RefreshSucceeded("t1") /\ RefreshSucceeded("t2")
    /\ rf["t1"].rt = rf["t2"].rt
    /\ rf["t1"].id # rf["t2"].id
    /\ access_token = Later(rf["t1"].id, rf["t2"].id)
    /\ refresh_token = access_token

\* ---------------------------------------------------------------------- C14
\* In this step p's lending-API request ends and no response is recorded
ApiRequestFails(p) ==
    /\ pc[p] = "req_wait"
    /\ pc'[p] \notin {"req_wait", "gone"}
    /\ Len(call'[p].resps) = Len(call[p].resps)

\* In this step p's provider request ends without an HTTP status
ProviderRequestFails(p) ==
    /\ pc[p] \in {"login_wait", "gh_wait", "fr_wait"}
    /\ rf'[p].st = "raised"
    /\ rf'[p].status = 0

\* C14: a lending-API request or a provider request that ends in a transport
\* failure is followed, in the same step, by no refresh and no further
\* lending-API request; the failure leaves the verb call (or login()), and
\* the Session is as it was.
C14_TransportFailurePropagates ==
    [][\A p \in Procs :
        /\ ApiRequestFails(p) =>
              /\ pc'[p] = "raised"
              /\ call'[p] = call[p]
              /\ rf'[p] = rf[p]
              /\ session' = session
        /\ ProviderRequestFails(p) =>
              /\ pc'[p] = IF p \in Tasks THEN "raised"
                          ELSE IF pc[p] = "login_wait" THEN "init_failed"
                          ELSE "serving"
              /\ p \in Tasks => call'[p] = call[p]
              /\ rf'[p] = [rf[p] EXCEPT !.st = "raised"]
              /\ session' = session
              /\ issued' = issued
      ]_vars

\* the retry of a call ended without a status; the call raised with the
\* Session that its forced refresh left
C14_Witness ==
    \E p \in Tasks :
        /\ pc[p] = "raised"
        /\ Len(call[p].hdrs) = 2
        /\ Len(call[p].resps) = 1
        /\ call[p].refsPost = 1
        /\ rf[p].st = "returned"
        /\ access_token = rf[p].id

\* ---------------------------------------------------------------------- C15
\* An authenticated operation has begun: a get_headers() call, the probe
\* request or a verb call
AuthenticatedOpBegun ==
    \/ pc[Main] \in {"serving", "closed"}
    \/ \E p \in Procs : call[p] # NoCall \/ rf[p].kind = "refresh"
    \/ \E p \in Tasks : pc[p] \notin {"idle", "gone"}

\* C15: login() is never invoked a second time and never by a verb call; in
\* every state in which an authenticated operation has begun, it has been
\* invoked exactly once and has completed successfully (its response was
\* applied to the Session).
C15_LoginOnceBeforeUse ==
    /\ life.logins <= 1
    /\ \A p \in Tasks : rf[p].kind # "login"
    /\ pc[Main] \notin {"start", "config_failed"} => life.logins = 1
    /\ AuthenticatedOpBegun =>
          /\ life.logins = 1
          /\ lastUpd.id # Absent
          /\ access_token # Absent
          /\ refresh_token # Absent

\* both verb calls are over, one of them with a failed refresh, and login()
\* has still been invoked once only
C15_Witness ==
    /\ pc[Main] = "serving"
    /\ pc["t1"] = "done"
    /\ pc["t2"] = "raised" /\ rf["t2"].st = "raised"
    /\ life.logins = 1

\* ---------------------------------------------------------------------- C16
\* The startup login has ended and did not return success: the provider
\* answered outside 200..299, or the request ended without a status
LoginNotSuccess ==
    /\ rf[Main].kind = "login"
    /\ rf[Main].st # "wait"
    /\ (rf[Main].status < 200 \/ rf[Main].status > 299)

\* C16: if the startup login does not return success, login() has raised
\* and ended the lifespan, the Session is empty as constructed, no transport
\* was created and no tool invocation is or was served.
C16_FailedLoginAborts ==
    LoginNotSuccess =>
        /\ pc[Main] = "init_failed"
        /\ rf[Main].st = "raised"
        /\ session = <<Absent, Absent, 0>>
        /\ life.opened = 0
        /\ \A p \in Tasks : pc[p] = "idle" /\ call[p] = NoCall /\ rf[p] = NoRf

C16_Witness ==
    /\ LoginNotSuccess
    /\ rf[Main].status = 400
    /\ pc[Main] = "init_failed"
    /\ now = MaxTime
    /\ life = [logins |-> 1, opened |-> 0, closed |-> 0]

\* ---------------------------------------------------------------------- C17
\* In this step the login() or refresh() call of p raises
AuthCallRaises(p) == rf[p].st = "wait" /\ rf'[p].st = "raised"

\* C17: an error is swallowed in the startup probe only. A refresh that
\* raises while the probe obtains its headers, and any end of the /ping
\* request short of cancellation, lead to serving; a login() that raises ends
\* the lifespan; a refresh or a lending-API request that fails inside a verb
\* call ends the call with the error.
C17_OnlyProbeSwallows ==
    [][/\ (pc[Main] = "gh_wait" /\ AuthCallRaises(Main)) => pc'[Main] = "serving"
       /\ (pc[Main] = "ping_wait" /\ pc'[Main] \notin {"ping_wait", "cancelled"})
             => pc'[Main] = "serving"
       /\ (pc[Main] = "login_wait" /\ AuthCallRaises(Main)) => pc'[Main] = "init_failed"
       /\ \A p \in Tasks :
             (AuthCallRaises(p) \/ ApiRequestFails(p)) =>
                 /\ pc'[p] = "raised"
                 /\ call'[p] = call[p]
      ]_vars

\* serving was reached although the refresh of the probe's get_headers()
\* was rejected
C17_Witness ==
    /\ pc[Main] = "serving"
    /\ rf[Main].kind = "refresh"
    /\ rf[Main].st = "raised"
    /\ rf[Main].status = 400
    /\ life.opened = 1

\* ---------------------------------------------------------------------- C18
\* The lifespan has ended: login() raised, the finally clause has run, or a
\* cancellation ended it during startup
LifespanEnded == pc[Main] \in {"init_failed", "closed", "cancelled"}

\* C18: the transport is closed at most once and only after it was created,
\* and in every lifespan that has ended after creating the transport it has
\* been closed exactly once, however the lifespan ended.
C18_TransportClosedOnce ==
    /\ life.closed <= life.opened
    /\ life.opened <= 1
    /\ (LifespanEnded /\ life.opened = 1) => life.closed = 1

\* ---------------------------------------------------------------------- C19
\* a request without its headers
Bare(r) == [method |-> r.method, path |-> r.path, payload |-> r.payload]

\* C19: the second request of a verb call has the method, path and
\* params/json of the first and other headers; it is sent after the forced
\* refresh has returned, and its Authorization header carries a token at
\* least as new as the one that refresh delivered, never the token that
\* produced the 401.
C19_RetryIdenticalButHeaders ==
    \A p \in Tasks :
        Len(call[p].reqs) = 2 =>
            LET first == call[p].reqs[1]
                second == call[p].reqs[2]
            IN /\ Bare(second) = Bare(first)
               /\ first.method = call[p].verb
               /\ first.payload = PayloadOf(call[p].verb)
               /\ second.headers # first.headers
               /\ second.headers = call[p].hdrs[2]
               /\ rf[p].st = "returned"
               /\ Tok(second.headers) >= rf[p].id
               /\ Tok(second.headers) > Tok(first.headers)

\* a POST was retried with its json, under the token of its forced refresh
C19_Witness ==
    \E p \in Tasks :
        /\ call[p].verb = "POST"
        /\ Len(call[p].reqs) = 2
        /\ call[p].reqs[2].payload = <<"json", "args">>
        /\ call[p].refsPost = 1
        /\ Tok(call[p].reqs[2].headers) = rf[p].id
        /\ Tok(call[p].reqs[1].headers) < rf[p].id

\* ---------------------------------------------------------------------- C20
\* In this step a login() or refresh() call succeeds: its response passes
\* raise_for_status() and _update_tokens() applies it whole
AuthCallSucceeds(p) == rf[p].st = "wait" /\ rf'[p].st = "close"

\* C20: access_token, refresh_token and expires_at change only in a step in
\* which login() or refresh() succeeds; every other step (building headers,
\* sending a request, receiving a response, a failing login() or refresh(),
\* the probe, shutdown) leaves all three as they were.
C20_SessionChangesOnlyOnSuccess ==
    [][session' # session => \E p \in Procs : AuthCallSucceeds(p)]_vars

\* ---------------------------------------------------------------------- C21
\* in this step the lifespan leaves its first line, one way or the other
StartupStep == pc[Main] = "start" /\ pc'[Main] # "start"

\* startup ends at the configuration: no AuthManager call, no request
ConfigFatal ==
    /\ pc'[Main] = "config_failed"
    /\ rf' = rf /\ call' = call /\ life' = life
    /\ session' = session

\* C21 as stated: when any one of the seven settings is absent, startup
\* fails before login() and before any other network call.
C21_AnyAbsentSettingFatal ==
    [][(StartupStep /\ environ # Settings) => ConfigFatal]_vars

\* C21 amended: when supabase_url, supabase_anon_key, user_email or
\* user_password is absent, startup fails before login() and before any
\* other network call; when only env, api_url or user_name are absent, their
\* defaults are used and startup goes on to login().
C21_RequiredSettingFatal ==
    [][StartupStep =>
         IF {"supabase_url", "supabase_anon_key", "user_email", "user_password"}
                \subseteq environ
         THEN /\ pc'[Main] = "login_wait"
              /\ rf'[Main].kind = "login" /\ rf'[Main].st = "wait"
              /\ life'.logins = 1
         ELSE ConfigFatal
      ]_vars

\* the password is the one setting absent, and startup has failed with no
\* login() made
C21_Witness ==
    /\ environ = Settings \ {"user_password"}
    /\ pc[Main] = "config_failed"
    /\ life.logins = 0
    /\ rf[Main] = NoRf

\* ---------------------------------------------------------------------- C22
\* C22: once the server has started (the lifespan has yielded), the exposed
\* operations include all seven: find, list and create borrower, list loans,
\* get loan balance, create loan, record payment.
C22_AllSevenExposed ==
    Serving =>
        {"find_borrower", "list_borrowers", "create_borrower", "list_loans",
         "get_loan_balance", "create_loan", "record_payment"} \subseteq Exposed

\* ---------------------------------------------------------------------- C23
\* the last response the handler received has a non-success status and is
\* not the answer to the separate balance lookup
GotFinalNonSuccess ==
    /\ tool.got # <<>>
    /\ (tool.got[1].status < 200 \/ tool.got[1].status > 299)
    /\ tool.gotPhase # "balance"

\* C23: a handler that receives a final response with a non-success status
\* has returned an error string, has not raised, whatever the body is, and
\* has made no verb call after that response.
C23_ErrorStringNotRaise ==
    GotFinalNonSuccess =>
        /\ tool.st = "returned"
        /\ tool.result = "error_string"
        /\ tool.phase = tool.gotPhase

\* ---------------------------------------------------------------------- C24
\* How far a verb call has come, from its position q and its record c: every
\* position of api_client.py:18-27 in the order the code passes them
Pos(q, c) ==
    LET again == Len(c.resps) > 0
    IN CASE q = "idle" -> 0
         [] q = "gh_wait" -> IF again THEN 6 ELSE 1
         [] q = "gh_close" -> IF again THEN 7 ELSE 2
         [] q = "req_wait" -> IF again THEN 8 ELSE 3
         [] q = "fr_wait" -> 4
         [] q = "fr_close" -> 5
         [] OTHER -> 9

\* the network request or the client close that p waits for can end (for a
\* request, the ending that is possible whatever the server does is taken)
TaskStep(p) ==
    \/ ProviderFailure(p) \/ ProactiveRefreshClosed(p)
    \/ ApiFailure(p) \/ ForcedRefreshClosed(p)

\* C24: a verb call under way waits for nothing but the end of a network
\* request (or of a client close); each of its steps takes it strictly
\* forward through at most nine positions, so no step is ever repeated and
\* the call has ended after nine steps at most; it sends at most three
\* refresh requests.
C24_BoundedCall ==
    /\ [](\A p \in Tasks :
            /\ call[p].refs <= 3
            /\ Len(call[p].hdrs) <= 2
            /\ (Serving /\ pc[p] \notin {"idle", "done", "raised", "gone"})
                  => ENABLED TaskStep(p))
    /\ [][\A p \in Tasks :
            Steps(p) => Pos(pc'[p], call'[p]) > Pos(pc[p], call[p])]_vars

\* a call that sent three refresh requests (in its first get_headers(),
\* after the 401, in its second get_headers()) and ended
C24_Witness ==
    \E p \in Tasks :
        /\ call[p].refs = 3
        /\ call[p].refsPost = 2
        /\ pc[p] = "raised"
        /\ Len(call[p].hdrs) = 1

\* ---------------------------------------------------------------------- C25
\* C25: no header is ever built from an absent access token. While the
\* access token is absent, refresh_token is absent and expires_at is 0; a
\* get_headers() call made then returns no header but sends a refresh request
\* carrying the absent refresh token; and when a refresh of get_headers() is
\* rejected, the call raises and no header is built.
C25_NoHeaderFromAbsentToken ==
    /\ [](/\ \A p \in Tasks : \A i \in 1..Len(call[p].hdrs) :
                Tok(call[p].hdrs[i]) # Absent
          /\ access_token = Absent => (refresh_token = Absent /\ expires_at = 0))
    /\ [][\A p \in Tasks :
            /\ (Asking(p) /\ Steps(p) /\ access_token = Absent) =>
                  /\ pc'[p] = "gh_wait"
                  /\ rf'[p].kind = "refresh" /\ rf'[p].st = "wait"
                  /\ rf'[p].rt = Absent
                  /\ call'[p].hdrs = call[p].hdrs
            /\ (pc[p] = "gh_wait" /\ rf'[p].st = "raised") =>
                  /\ pc'[p] = "raised"
                  /\ call'[p].hdrs = call[p].hdrs
       ]_vars

\* a call on the empty Session sent a refresh without a refresh token, the
\* provider rejected it, and the call raised without having built a header
C25_Witness ==
    \E p \in Tasks :
        /\ access_token = Absent /\ refresh_token = Absent /\ expires_at = 0
        /\ pc[p] = "raised"
        /\ rf[p].kind = "refresh" /\ rf[p].rt = Absent /\ rf[p].status = 400
        /\ call[p].hdrs = <<>>
        /\ call[p].refs = 1

\* ---------------------------------------------------------------------- C26
\* the call of p found the token expired at its start and the provider
\* rejected the refresh
RejectedAtStart(p) ==
    /\ call[p].verb # "none"
    /\ Len(call[p].resps) = 0
    /\ rf[p].kind = "refresh"
    /\ rf[p].st = "raised"
    /\ rf[p].status >= 300

\* C26: a verb call that starts with an expired token and whose refresh is
\* rejected raises with exactly one refresh request sent and no lending-API
\* request, and login() is not invoked again; a step that leaves the Session
\* unchanged (a rejected refresh is one) leaves an expired token expired, so
\* every later call starts by sending a refresh in its turn.
C26_RejectedRefreshTerminal ==
    /\ [](\A p \in Tasks :
            RejectedAtStart(p) =>
                /\ pc[p] = "raised"
                /\ call[p].hdrs = <<>>
                /\ call[p].refs = 1
                /\ rf[p].sent = 1
                /\ life.logins = 1)
    /\ [][/\ (Expired(now, expires_at) /\ session' = session)
                => Expired(now', expires_at')
           /\ \A p \in Tasks :
                /\ (pc[p] = "gh_wait" /\ Steps(p) /\ rf'[p].status >= 300) =>
                      /\ session' = session
                      /\ life' = life
                      /\ \A q \in Procs : rf'[q].kind # "login" \/ rf'[q] = rf[q]
                /\ (pc[p] = "idle" /\ Steps(p) /\ Expired(now, expires_at)) =>
                      /\ pc'[p] = "gh_wait"
                      /\ call'[p].refs = 1
                      /\ call'[p].hdrs = <<>>
       ]_vars

\* both calls, one after the other or together, met the expired token, had
\* their refresh rejected and raised; the Session still holds the refresh
\* token both submitted
C26_Witness ==
    /\ \A p \in Tasks :
          /\ RejectedAtStart(p)
          /\ rf[p].status = 400
          /\ rf[p].rt = refresh_token
          /\ pc[p] = "raised"
          /\ call[p].refs = 1
    /\ Expired(now, expires_at)
    /\ life.logins = 1
    /\ access_token # Absent

\* ---------------------------------------------------------------------- C27
\* in this step p sends a refresh request
SendsRefresh(p) ==
    /\ rf'[p].kind = "refresh"
    /\ rf'[p].st = "wait"
    /\ rf'[p] # rf[p]

\* C27: a refresh request carries the Session's refresh_token as it stands
\* when the request is sent; it is therefore never a token older than the
\* one the last completed successful login() or refresh() delivered.
C27_RefreshCarriesCurrentToken ==
    [][\A p \in Procs :
        SendsRefresh(p) =>
            /\ rf'[p].rt = refresh_token
            /\ refresh_token' = refresh_token
            /\ rf'[p].rt >= lastUpd.id
            /\ rf'[p].sent = 1
      ]_vars

\* two refresh requests are in flight at once and carry the same refresh
\* token, after an earlier refresh had replaced the token of the login
C27_Witness ==
    /\ pc["t1"] = "fr_wait" /\ pc["t2"] = "gh_wait"
    /\ rf["t1"].st = "wait" /\ rf["t2"].st = "wait"
    /\ rf["t1"].rt = rf["t2"].rt
    /\ rf["t1"].rt = refresh_token
    /\ rf["t1"].rt = lastUpd.id
    /\ lastUpd.id > 1

====
